---- MODULE Spec2Model ----
(***************************************************************************)
(* Memoizing decorator helpers of cachetools (_decorators.py).             *)
(*                                                                         *)
(* One wrapper, built by _cached_wrapper or _cachedmethod_wrapper from a   *)
(* cache, an optional lock and an optional info formatter, is shared by a  *)
(* set of threads.  Each thread repeatedly calls the wrapper, cache_clear  *)
(* or cache_info.  Every group of statements that runs between two points  *)
(* where another thread can interleave is one action; acquiring a lock is  *)
(* an action of its own, so the critical sections are visible as states.   *)
(*                                                                         *)
(* The strategies without a lock (_uncached*, _cached_unlocked*,           *)
(* _cachedmethod_unlocked) are for single-threaded use: their operations   *)
(* start only when no other thread has an operation in flight.             *)
(***************************************************************************)
EXTENDS Integers, FiniteSets, Sequences, TLC

\* ------------------------------------------------------------------ bounds
NumThreads == 2     \* threads sharing the wrapper
MaxOps == 3         \* operations (calls, clears, infos) started in one run

Threads == 1..NumThreads
Keys == {1, 2}      \* derived keys the calls use
Vals == {1, 2}      \* values the underlying function may return

\* --------------------------------------------------------- encoded values
\* Python's None: an absent cache entry, a free lock, an unset local.
None == 0
\* How a call leaves the wrapper when it does not return a value.
Raised == 0 - 1        \* the underlying function's own exception
KeyErr == 0 - 2        \* a KeyError escaping the wrapper
ValueErr == 0 - 3      \* a ValueError (capacity rejection) escaping the wrapper

VARIABLES
    cfg,        \* construction inputs: [cache, lock, info, method]
    strategy,   \* the wrapper chosen at construction
    maxsize,    \* capacity of the cache (every value has size 1)
    cache,      \* [Keys -> Vals \cup {None}], the cache of the caching instance
    pending,    \* _cached_cond_info: keys being computed
    lock,       \* owner of the lock / the condition's lock, None when free
    hits,       \* nonlocal hits
    misses,     \* nonlocal misses
    pc,         \* [Threads -> position in the running operation]
    self,       \* [Threads -> instance of the running method call, else "-"]
    key,        \* [Threads -> k of the running call]
    val,        \* [Threads -> result / v of the running call]
    snapshot,   \* what the last cache_info returned
    last,       \* the last step: <<kind, returned value>>
    ops,        \* operations started so far: [calls, other], the last one on instance .on
    nFound,     \* history: lookups that found the key
    nNotFound,  \* history: lookups that raised KeyError
    seen,       \* history: keys looked up so far
    invoked,    \* history: [Keys -> invocations of the underlying function]
    cleared,    \* history: some cache_clear has run
    raised,     \* history: the underlying function has raised
    returned,   \* history: the underlying function has returned a value
    woke        \* history: [Threads -> result of the computation whose notify woke it]

config == <<cfg, strategy, maxsize>>
counters == <<hits, misses>>
lookups == <<nFound, nNotFound, seen>>
calls == <<invoked, raised, returned>>
vars == <<cfg, strategy, maxsize, cache, pending, lock, hits, misses, pc, self,
          key, val, snapshot, last, ops, nFound, nNotFound, seen, invoked,
          cleared, raised, returned, woke>>

\* ---------------------------------------------------------- the selectors
LockKinds == {"none", "plain", "cond"}

\* locks that have only one of the two methods of a Condition
PartialLockKinds == {"wait_for_only", "notify_all_only"}

\* hasattr(lock, attr)
HasAttr(lockKind, attr) ==
    \/ lockKind = "cond" /\ attr \in {"wait_for", "notify_all"}
    \/ lockKind = "wait_for_only" /\ attr = "wait_for"
    \/ lockKind = "notify_all_only" /\ attr = "notify_all"

\* mutation of IsConditionCapable: one of the two methods is enough
IsConditionCapableEither(lockKind) ==
    HasAttr(lockKind, "wait_for") \/ HasAttr(lockKind, "notify_all")

\* hasattr(lock, "wait_for") and hasattr(lock, "notify_all")
IsConditionCapable(lockKind) ==
    HasAttr(lockKind, "wait_for") /\ HasAttr(lockKind, "notify_all")

\* _cached_wrapper(func, cache, key, lock, cond, info)
CachedWrapper(hasCache, lockKind, hasInfo) ==
    IF hasInfo
    THEN IF ~hasCache THEN "uncached_info"
         ELSE IF lockKind = "none" THEN "cached_unlocked_info"
         ELSE IF IsConditionCapable(lockKind) THEN "cached_cond_info"
         ELSE "cached_locked_info"
    ELSE IF ~hasCache THEN "uncached"
         ELSE IF lockKind = "none" THEN "cached_unlocked"
         ELSE "cached_locked"

\* _cachedmethod_wrapper(func, cache, key, lock)
CachedMethodWrapper(lockKind) ==
    IF lockKind = "none" THEN "cachedmethod_unlocked" ELSE "cachedmethod_locked"

\* ------------------------------------------------------ the Cache contract
EmptyCache == [j \in Keys |-> None]

Size(c) == Cardinality({j \in Keys : c[j] # None})

\* cache[k] = v raises ValueError when the value does not fit at all
CacheRejects(c, k, v) == maxsize < 1

\* cache[k] = v, accepted: stored, the other entries evicted when k is new and
\* the cache is full
CacheSetItem(c, k, v) ==
    IF c[k] # None \/ Size(c) < maxsize
    THEN [c EXCEPT ![k] = v]
    ELSE [j \in Keys |-> IF j = k THEN v ELSE None]

\* cache.setdefault(k, v): the stored value when k is present, else cache[k] = v
CacheSetDefaultRejects(c, k, v) == c[k] = None /\ CacheRejects(c, k, v)

CacheSetDefault(c, k, v) == IF c[k] # None THEN c ELSE CacheSetItem(c, k, v)

CacheSetDefaultValue(c, k, v) == IF c[k] # None THEN c[k] ELSE v

\* the instances a method is called on: cache(self) is None for "A" and a
\* real cache for "B"
Instances == {"A", "B"}

HasCache(inst) == inst = "B"

\* ------------------------------------------------------------------ helpers
Idle(t) == pc[t] = "idle"

OthersIdle(t) == \A u \in Threads \ {t} : Idle(u)

StepTaken == <<"step", None>>

Returned(r) == <<"return", r>>

\* nothing but cache_clear and cache_info has run since a cache_clear returned
JustCleared == last[1] \in {"clear", "clear2", "info0"}

\* cache_clear returned: "clear2" when it ran right after another cache_clear
ClearDone == IF last[1] \in {"clear", "clear2"} THEN <<"clear2", None>> ELSE <<"clear", None>>

\* cache_info returned: "info0" when nothing else ran since a cache_clear
InfoDone == IF JustCleared THEN <<"info0", None>> ELSE <<"info", None>>

Move(t, p) == pc' = [pc EXCEPT ![t] = p] /\ UNCHANGED <<self, key, val>>

\* the call goes on at p
Goto(t, p) == Move(t, p) /\ last' = StepTaken

\* the call goes on at p with its local result / v bound to v
GotoVal(t, p, v) ==
    /\ pc' = [pc EXCEPT ![t] = p]
    /\ val' = [val EXCEPT ![t] = v]
    /\ UNCHANGED <<self, key>>
    /\ last' = StepTaken

\* the call returns r (or raises, r < 0); its locals go out of scope
Return(t, r) ==
    /\ pc' = [pc EXCEPT ![t] = "idle"]
    /\ self' = [self EXCEPT ![t] = "-"]
    /\ key' = [key EXCEPT ![t] = None]
    /\ val' = [val EXCEPT ![t] = None]
    /\ last' = Returned(r)

\* entering `with lock:` / `with cond:`
Acquire(t) == lock = None /\ lock' = t

\* leaving `with lock:` / `with cond:`
Release(t) == lock' = None

\* an operation may start
CanStart(t) == Idle(t) /\ ops.calls + ops.other < MaxOps

\* a cache_clear or a cache_info starts, on instance inst when it is a
\* method's ("-" otherwise)
StartOther(inst) == ops' = [ops EXCEPT !.other = @ + 1, !.on = inst]

\* a wrapper call starts on instance inst with k = key(*args, **kwargs)
Begin(t, k, inst, p) ==
    /\ CanStart(t)
    /\ ops' = [ops EXCEPT !.calls = @ + 1, !.on = inst]
    /\ pc' = [pc EXCEPT ![t] = p]
    /\ key' = [key EXCEPT ![t] = k]
    /\ self' = [self EXCEPT ![t] = inst]
    /\ UNCHANGED val
    /\ last' = StepTaken

\* history of a lookup cache[k]
NoteLookup(k, found) ==
    /\ seen' = seen \cup {k}
    /\ nFound' = IF found THEN nFound + 1 ELSE nFound
    /\ nNotFound' = IF found THEN nNotFound ELSE nNotFound + 1

\* func(*args, **kwargs) returns a value or raises
FuncResults == Vals \cup {Raised}

\* history of an invocation func(*args, **kwargs) with result r
NoteInvoke(k, r) ==
    /\ invoked' = [invoked EXCEPT ![k] = @ + 1]
    /\ raised' = (raised \/ r = Raised)
    /\ returned' = (returned \/ r # Raised)

\* ------------------------------------------------------- _cached_cond_info
IsCond == strategy = "cached_cond_info"

\* line 10: k = key(*args, **kwargs)
CondCall(t, k) ==
    /\ IsCond
    /\ Begin(t, k, "-", "acq_lookup")
    /\ UNCHANGED <<config, cache, pending, lock, counters, snapshot, lookups,
                   calls, cleared, woke>>

\* line 11: with cond:
CondAcquireLookup(t) ==
    /\ IsCond
    /\ pc[t] = "acq_lookup"
    /\ Acquire(t)
    /\ Goto(t, "wait_for")
    /\ UNCHANGED <<config, cache, pending, counters, snapshot, ops, lookups,
                   calls, cleared, woke>>

\* mutation of NotPending: a caller waits while any key is pending
NotPendingNone(k) == pending = {}

\* mutation of NotPending: the gate is always open
NotPendingAlways(k) == TRUE

\* line 12: the predicate lambda: k not in pending
NotPending(k) == k \notin pending

\* mutation of CondWaitFor: the lock is released when the predicate holds,
\* the lookup being a guarded section of its own
CondWaitForReleases(t) ==
    /\ IsCond
    /\ pc[t] = "wait_for"
    /\ lock = t
    /\ IF NotPending(key[t])
       THEN Goto(t, "lookup") /\ Release(t)
       ELSE Goto(t, "waiting") /\ Release(t)
    /\ UNCHANGED <<config, cache, pending, counters, snapshot, ops, lookups,
                   calls, cleared, woke>>

\* line 12: cond.wait_for(...), one evaluation of the predicate: wait_for
\* returns when it holds, else calls wait(), which releases the lock
CondWaitFor(t) ==
    /\ IsCond
    /\ pc[t] = "wait_for"
    /\ lock = t
    /\ IF NotPending(key[t])
       THEN Goto(t, "lookup") /\ UNCHANGED lock
       ELSE Goto(t, "waiting") /\ Release(t)
    /\ UNCHANGED <<config, cache, pending, counters, snapshot, ops, lookups,
                   calls, cleared, woke>>

\* line 12: a notified wait() re-acquires the lock, and wait_for evaluates
\* the predicate again
CondWake(t) ==
    /\ IsCond
    /\ pc[t] = "woken"
    /\ Acquire(t)
    /\ Goto(t, "wait_for")
    /\ UNCHANGED <<config, cache, pending, counters, snapshot, ops, lookups,
                   calls, cleared, woke>>

\* line 14: result = cache[k]
CondLookup(t) ==
    /\ IsCond
    /\ pc[t] = "lookup"
    /\ lock = t
    /\ GotoVal(t, IF cache[key[t]] # None THEN "hit" ELSE "miss", cache[key[t]])
    /\ NoteLookup(key[t], cache[key[t]] # None)
    /\ UNCHANGED <<config, cache, pending, lock, counters, snapshot, ops,
                   calls, cleared, woke>>

\* lines 15-16: hits += 1; return result (leaving `with cond`)
CondHit(t) ==
    /\ IsCond
    /\ pc[t] = "hit"
    /\ lock = t
    /\ hits' = hits + 1
    /\ Release(t)
    /\ Return(t, val[t])
    /\ woke' = [woke EXCEPT ![t] = None]
    /\ UNCHANGED <<config, cache, pending, misses, snapshot, ops, lookups,
                   calls, cleared>>

\* mutation of CondMiss: the miss is counted as a hit
CondMissCountedAsHit(t) ==
    /\ IsCond
    /\ pc[t] = "miss"
    /\ lock = t
    /\ pending' = pending \cup {key[t]}
    /\ hits' = hits + 1
    /\ Release(t)
    /\ Goto(t, "compute")
    /\ UNCHANGED <<config, cache, misses, snapshot, ops, lookups, calls,
                   cleared, woke>>

\* mutation of CondMiss: the key is not added to the pending set
CondMissNoAdd(t) ==
    /\ IsCond
    /\ pc[t] = "miss"
    /\ lock = t
    /\ misses' = misses + 1
    /\ Release(t)
    /\ Goto(t, "compute")
    /\ UNCHANGED <<config, cache, pending, hits, snapshot, ops, lookups, calls,
                   cleared, woke>>

\* lines 17-19: except KeyError: pending.add(k); misses += 1 (leaving `with cond`)
CondMiss(t) ==
    /\ IsCond
    /\ pc[t] = "miss"
    /\ lock = t
    /\ pending' = pending \cup {key[t]}
    /\ misses' = misses + 1
    /\ Release(t)
    /\ Goto(t, "compute")
    /\ UNCHANGED <<config, cache, hits, snapshot, ops, lookups, calls,
                   cleared, woke>>

\* line 21: v = func(*args, **kwargs); an exception goes to the finally block
CondCompute(t, r) ==
    /\ IsCond
    /\ pc[t] = "compute"
    /\ GotoVal(t, IF r = Raised THEN "acq_cleanup" ELSE "acq_store", r)
    /\ NoteInvoke(key[t], r)
    /\ UNCHANGED <<config, cache, pending, lock, counters, snapshot, ops,
                   lookups, cleared, woke>>

\* line 22: with cond:
CondAcquireStore(t) ==
    /\ IsCond
    /\ pc[t] = "acq_store"
    /\ Acquire(t)
    /\ Goto(t, "store")
    /\ UNCHANGED <<config, cache, pending, counters, snapshot, ops, lookups,
                   calls, cleared, woke>>

\* mutation of CondStore: the computed value is not stored
CondStoreSkipped(t) ==
    /\ IsCond
    /\ pc[t] = "store"
    /\ lock = t
    /\ Release(t)
    /\ Goto(t, "acq_cleanup")
    /\ UNCHANGED <<config, cache, pending, counters, snapshot, ops, lookups,
                   calls, cleared, woke>>

\* lines 23-27: cache[k] = v, except ValueError: pass; return v (leaving
\* `with cond`; the finally block runs before the call returns)
CondStore(t) ==
    /\ IsCond
    /\ pc[t] = "store"
    /\ lock = t
    /\ cache' = IF CacheRejects(cache, key[t], val[t])
                THEN cache
                ELSE CacheSetItem(cache, key[t], val[t])
    /\ Release(t)
    /\ Goto(t, "acq_cleanup")
    /\ UNCHANGED <<config, pending, counters, snapshot, ops, lookups, calls,
                   cleared, woke>>

\* line 29: finally: with cond:
CondAcquireCleanup(t) ==
    /\ IsCond
    /\ pc[t] = "acq_cleanup"
    /\ Acquire(t)
    /\ Goto(t, "cleanup")
    /\ UNCHANGED <<config, cache, pending, counters, snapshot, ops, lookups,
                   calls, cleared, woke>>

\* mutation of CondCleanup: no notify_all
CondCleanupNoNotify(t) ==
    /\ IsCond
    /\ pc[t] = "cleanup"
    /\ lock = t
    /\ Release(t)
    /\ IF key[t] \in pending
       THEN /\ pending' = pending \ {key[t]}
            /\ Return(t, val[t])
            /\ woke' = [woke EXCEPT ![t] = None]
       ELSE /\ Return(t, KeyErr)
            /\ woke' = [woke EXCEPT ![t] = None]
            /\ UNCHANGED pending
    /\ UNCHANGED <<config, cache, counters, snapshot, ops, lookups, calls,
                   cleared>>

\* mutation of CondCleanup: the cleanup runs after a successful computation
\* only (no finally block)
CondCleanupOnSuccessOnly(t) ==
    /\ IsCond
    /\ pc[t] = "cleanup"
    /\ lock = t
    /\ Release(t)
    /\ IF val[t] # Raised
       THEN /\ pending' = pending \ {key[t]}
            /\ pc' = [u \in Threads |->
                        IF u = t THEN "idle"
                        ELSE IF pc[u] = "waiting" THEN "woken"
                        ELSE pc[u]]
            /\ woke' = [u \in Threads |->
                          IF u = t THEN None
                          ELSE IF pc[u] = "waiting" /\ key[u] = key[t] THEN val[t]
                          ELSE woke[u]]
            /\ self' = [self EXCEPT ![t] = "-"]
            /\ key' = [key EXCEPT ![t] = None]
            /\ val' = [val EXCEPT ![t] = None]
            /\ last' = Returned(val[t])
       ELSE /\ Return(t, Raised)
            /\ woke' = [woke EXCEPT ![t] = None]
            /\ UNCHANGED pending
    /\ UNCHANGED <<config, cache, counters, snapshot, ops, lookups, calls,
                   cleared>>

\* lines 30-31: pending.remove(k); cond.notify_all(); then the call returns v
\* or re-raises.  set.remove raises KeyError when k is absent, which skips
\* notify_all and replaces the outcome of the call.
CondCleanup(t) ==
    /\ IsCond
    /\ pc[t] = "cleanup"
    /\ lock = t
    /\ Release(t)
    /\ IF key[t] \in pending
       THEN /\ pending' = pending \ {key[t]}
            /\ pc' = [u \in Threads |->
                        IF u = t THEN "idle"
                        ELSE IF pc[u] = "waiting" THEN "woken"
                        ELSE pc[u]]
            /\ woke' = [u \in Threads |->
                          IF u = t THEN None
                          ELSE IF pc[u] = "waiting" /\ key[u] = key[t] THEN val[t]
                          ELSE woke[u]]
            /\ self' = [self EXCEPT ![t] = "-"]
            /\ key' = [key EXCEPT ![t] = None]
            /\ val' = [val EXCEPT ![t] = None]
            /\ last' = Returned(val[t])
       ELSE /\ Return(t, KeyErr)
            /\ woke' = [woke EXCEPT ![t] = None]
            /\ UNCHANGED pending
    /\ UNCHANGED <<config, cache, counters, snapshot, ops, lookups, calls,
                   cleared>>

\* line 35: cache_clear: with cond:
CondClearAcquire(t) ==
    /\ IsCond
    /\ CanStart(t)
    /\ StartOther("-")
    /\ Acquire(t)
    /\ Move(t, "clear")
    /\ UNCHANGED <<config, cache, pending, counters, snapshot, last, lookups,
                   calls, cleared, woke>>

\* mutation of CondClearCache: cache_clear also empties the pending set
CondClearCacheDropsPending(t) ==
    /\ IsCond
    /\ pc[t] = "clear"
    /\ lock = t
    /\ cache' = EmptyCache
    /\ pending' = {}
    /\ cleared' = TRUE
    /\ Move(t, "reset")
    /\ UNCHANGED <<config, lock, counters, snapshot, last, ops, lookups,
                   calls, woke>>

\* line 36: cache.clear()
CondClearCache(t) ==
    /\ IsCond
    /\ pc[t] = "clear"
    /\ lock = t
    /\ cache' = EmptyCache
    /\ cleared' = TRUE
    /\ Move(t, "reset")
    /\ UNCHANGED <<config, pending, lock, counters, snapshot, last, ops,
                   lookups, calls, woke>>

\* line 37: hits = misses = 0 (leaving `with cond`)
CondClearReset(t) ==
    /\ IsCond
    /\ pc[t] = "reset"
    /\ lock = t
    /\ hits' = 0
    /\ misses' = 0
    /\ Release(t)
    /\ Move(t, "idle")
    /\ last' = ClearDone
    /\ UNCHANGED <<config, cache, pending, snapshot, ops, lookups, calls,
                   cleared, woke>>

\* lines 40-41: cache_info: with cond: return info(hits, misses)
CondInfo(t) ==
    /\ IsCond
    /\ CanStart(t)
    /\ StartOther("-")
    /\ lock = None
    /\ snapshot' = <<hits, misses>>
    /\ last' = InfoDone
    /\ UNCHANGED <<config, cache, pending, lock, counters, pc, self, key, val,
                   lookups, calls, cleared, woke>>

NextCond ==
    \E t \in Threads :
        \/ \E k \in Keys : CondCall(t, k)
        \/ CondAcquireLookup(t)
        \/ CondWaitFor(t)
        \/ CondWake(t)
        \/ CondLookup(t)
        \/ CondHit(t)
        \/ CondMiss(t)
        \/ \E r \in FuncResults : CondCompute(t, r)
        \/ CondAcquireStore(t)
        \/ CondStore(t)
        \/ CondAcquireCleanup(t)
        \/ CondCleanup(t)
        \/ CondClearAcquire(t)
        \/ CondClearCache(t)
        \/ CondClearReset(t)
        \/ CondInfo(t)

\* ------------------------------------------------------ _cached_locked_info
IsLockedInfo == strategy = "cached_locked_info"

\* line 53: k = key(*args, **kwargs)
LockedInfoCall(t, k) ==
    /\ IsLockedInfo
    /\ Begin(t, k, "-", "acq_lookup")
    /\ UNCHANGED <<config, cache, pending, lock, counters, snapshot, lookups,
                   calls, cleared, woke>>

\* line 54: with lock:
LockedInfoAcquireLookup(t) ==
    /\ IsLockedInfo
    /\ pc[t] = "acq_lookup"
    /\ Acquire(t)
    /\ Goto(t, "lookup")
    /\ UNCHANGED <<config, cache, pending, counters, snapshot, ops, lookups,
                   calls, cleared, woke>>

\* line 56: result = cache[k]
LockedInfoLookup(t) ==
    /\ IsLockedInfo
    /\ pc[t] = "lookup"
    /\ lock = t
    /\ GotoVal(t, IF cache[key[t]] # None THEN "hit" ELSE "miss", cache[key[t]])
    /\ NoteLookup(key[t], cache[key[t]] # None)
    /\ UNCHANGED <<config, cache, pending, lock, counters, snapshot, ops,
                   calls, cleared, woke>>

\* mutation of LockedInfoHit: the hit is not counted
LockedInfoHitUncounted(t) ==
    /\ IsLockedInfo
    /\ pc[t] = "hit"
    /\ lock = t
    /\ Release(t)
    /\ Return(t, val[t])
    /\ UNCHANGED <<config, cache, pending, counters, snapshot, ops, lookups,
                   calls, cleared, woke>>

\* lines 57-58: hits += 1; return result (leaving `with lock`)
LockedInfoHit(t) ==
    /\ IsLockedInfo
    /\ pc[t] = "hit"
    /\ lock = t
    /\ hits' = hits + 1
    /\ Release(t)
    /\ Return(t, val[t])
    /\ UNCHANGED <<config, cache, pending, misses, snapshot, ops, lookups,
                   calls, cleared, woke>>

\* mutation of LockedInfoMiss: the function is called inside `with lock`
LockedInfoMissKeepsLock(t) ==
    /\ IsLockedInfo
    /\ pc[t] = "miss"
    /\ lock = t
    /\ misses' = misses + 1
    /\ Goto(t, "compute")
    /\ UNCHANGED <<config, cache, pending, lock, hits, snapshot, ops, lookups,
                   calls, cleared, woke>>

\* lines 59-60: except KeyError: misses += 1 (leaving `with lock`)
LockedInfoMiss(t) ==
    /\ IsLockedInfo
    /\ pc[t] = "miss"
    /\ lock = t
    /\ misses' = misses + 1
    /\ Release(t)
    /\ Goto(t, "compute")
    /\ UNCHANGED <<config, cache, pending, hits, snapshot, ops, lookups,
                   calls, cleared, woke>>

\* mutation of LockedInfoCompute: the exception is swallowed and the call
\* returns None
LockedInfoComputeSwallows(t, r) ==
    /\ IsLockedInfo
    /\ pc[t] = "compute"
    /\ IF r = Raised
       THEN Return(t, None)
       ELSE GotoVal(t, "acq_store", r)
    /\ NoteInvoke(key[t], r)
    /\ UNCHANGED <<config, cache, pending, lock, counters, snapshot, ops,
                   lookups, cleared, woke>>

\* line 61: v = func(*args, **kwargs); an exception leaves the wrapper
LockedInfoCompute(t, r) ==
    /\ IsLockedInfo
    /\ pc[t] = "compute"
    /\ IF r = Raised
       THEN Return(t, Raised)
       ELSE GotoVal(t, "acq_store", r)
    /\ NoteInvoke(key[t], r)
    /\ UNCHANGED <<config, cache, pending, lock, counters, snapshot, ops,
                   lookups, cleared, woke>>

\* line 62: with lock:
LockedInfoAcquireStore(t) ==
    /\ IsLockedInfo
    /\ pc[t] = "acq_store"
    /\ Acquire(t)
    /\ Goto(t, "store")
    /\ UNCHANGED <<config, cache, pending, counters, snapshot, ops, lookups,
                   calls, cleared, woke>>

\* mutation of LockedInfoSetDefault: a call in flight during a cache_clear
\* is cancelled: its value is not stored
LockedInfoSetDefaultUnlessCleared(t) ==
    /\ IsLockedInfo
    /\ pc[t] = "store"
    /\ lock = t
    /\ IF cleared \/ CacheSetDefaultRejects(cache, key[t], val[t])
       THEN /\ UNCHANGED cache
            /\ Return(t, val[t])
       ELSE /\ cache' = CacheSetDefault(cache, key[t], val[t])
            /\ Return(t, CacheSetDefaultValue(cache, key[t], val[t]))
    /\ Release(t)
    /\ UNCHANGED <<config, pending, counters, snapshot, ops, lookups, calls,
                   cleared, woke>>

\* mutation of LockedInfoSetDefault: cache[k] = v instead of setdefault
LockedInfoSetItem(t) ==
    /\ IsLockedInfo
    /\ pc[t] = "store"
    /\ lock = t
    /\ IF CacheRejects(cache, key[t], val[t])
       THEN UNCHANGED cache
       ELSE cache' = CacheSetItem(cache, key[t], val[t])
    /\ Return(t, val[t])
    /\ Release(t)
    /\ UNCHANGED <<config, pending, counters, snapshot, ops, lookups, calls,
                   cleared, woke>>

\* lines 63-67: return cache.setdefault(k, v), except ValueError: return v
\* (leaving `with lock`)
LockedInfoSetDefault(t) ==
    /\ IsLockedInfo
    /\ pc[t] = "store"
    /\ lock = t
    /\ IF CacheSetDefaultRejects(cache, key[t], val[t])
       THEN /\ UNCHANGED cache
            /\ Return(t, val[t])
       ELSE /\ cache' = CacheSetDefault(cache, key[t], val[t])
            /\ Return(t, CacheSetDefaultValue(cache, key[t], val[t]))
    /\ Release(t)
    /\ UNCHANGED <<config, pending, counters, snapshot, ops, lookups, calls,
                   cleared, woke>>

\* line 71: cache_clear: with lock:
LockedInfoClearAcquire(t) ==
    /\ IsLockedInfo
    /\ CanStart(t)
    /\ StartOther("-")
    /\ Acquire(t)
    /\ Move(t, "clear")
    /\ UNCHANGED <<config, cache, pending, counters, snapshot, last, lookups,
                   calls, cleared, woke>>

\* mutation of LockedInfoClearCache: the lock is not held: cache.clear()
\* and the reset of the counters are separate steps other threads can
\* interleave with
LockedInfoClearCacheUnlocked(t) ==
    /\ IsLockedInfo
    /\ pc[t] = "clear"
    /\ lock = t
    /\ cache' = EmptyCache
    /\ cleared' = TRUE
    /\ Release(t)
    /\ Move(t, "reset")
    /\ UNCHANGED <<config, pending, counters, snapshot, last, ops, lookups,
                   calls, woke>>

\* line 72: cache.clear()
LockedInfoClearCache(t) ==
    /\ IsLockedInfo
    /\ pc[t] = "clear"
    /\ lock = t
    /\ cache' = EmptyCache
    /\ cleared' = TRUE
    /\ Move(t, "reset")
    /\ UNCHANGED <<config, pending, lock, counters, snapshot, last, ops,
                   lookups, calls, woke>>

\* mutation of LockedInfoClearReset: only hits is reset
LockedInfoClearResetHitsOnly(t) ==
    /\ IsLockedInfo
    /\ pc[t] = "reset"
    /\ lock = t
    /\ hits' = 0
    /\ Release(t)
    /\ Move(t, "idle")
    /\ last' = ClearDone
    /\ UNCHANGED <<config, cache, pending, misses, snapshot, ops, lookups,
                   calls, cleared, woke>>

\* line 73: hits = misses = 0 (leaving `with lock`)
LockedInfoClearReset(t) ==
    /\ IsLockedInfo
    /\ pc[t] = "reset"
    /\ lock = t
    /\ hits' = 0
    /\ misses' = 0
    /\ Release(t)
    /\ Move(t, "idle")
    /\ last' = ClearDone
    /\ UNCHANGED <<config, cache, pending, snapshot, ops, lookups, calls,
                   cleared, woke>>

\* lines 76-77: cache_info: with lock: return info(hits, misses)
LockedInfoInfo(t) ==
    /\ IsLockedInfo
    /\ CanStart(t)
    /\ StartOther("-")
    /\ lock = None
    /\ snapshot' = <<hits, misses>>
    /\ last' = InfoDone
    /\ UNCHANGED <<config, cache, pending, lock, counters, pc, self, key, val,
                   lookups, calls, cleared, woke>>

NextLockedInfo ==
    \E t \in Threads :
        \/ \E k \in Keys : LockedInfoCall(t, k)
        \/ LockedInfoAcquireLookup(t)
        \/ LockedInfoLookup(t)
        \/ LockedInfoHit(t)
        \/ LockedInfoMiss(t)
        \/ \E r \in FuncResults : LockedInfoCompute(t, r)
        \/ LockedInfoAcquireStore(t)
        \/ LockedInfoSetDefault(t)
        \/ LockedInfoClearAcquire(t)
        \/ LockedInfoClearCache(t)
        \/ LockedInfoClearReset(t)
        \/ LockedInfoInfo(t)

\* ----------------------------------------------------------- _cached_locked
IsLocked == strategy = "cached_locked"

\* line 132: k = key(*args, **kwargs)
LockedCall(t, k) ==
    /\ IsLocked
    /\ Begin(t, k, "-", "acq_lookup")
    /\ UNCHANGED <<config, cache, pending, lock, counters, snapshot, lookups,
                   calls, cleared, woke>>

\* line 133: with lock:
LockedAcquireLookup(t) ==
    /\ IsLocked
    /\ pc[t] = "acq_lookup"
    /\ Acquire(t)
    /\ Goto(t, "lookup")
    /\ UNCHANGED <<config, cache, pending, counters, snapshot, ops, lookups,
                   calls, cleared, woke>>

\* lines 134-137: return cache[k], except KeyError: pass (leaving `with lock`)
LockedLookup(t) ==
    /\ IsLocked
    /\ pc[t] = "lookup"
    /\ lock = t
    /\ IF cache[key[t]] # None
       THEN Return(t, cache[key[t]])
       ELSE Goto(t, "compute")
    /\ Release(t)
    /\ NoteLookup(key[t], cache[key[t]] # None)
    /\ UNCHANGED <<config, cache, pending, counters, snapshot, ops, calls,
                   cleared, woke>>

\* line 138: v = func(*args, **kwargs); an exception leaves the wrapper
LockedCompute(t, r) ==
    /\ IsLocked
    /\ pc[t] = "compute"
    /\ IF r = Raised
       THEN Return(t, Raised)
       ELSE GotoVal(t, "acq_store", r)
    /\ NoteInvoke(key[t], r)
    /\ UNCHANGED <<config, cache, pending, lock, counters, snapshot, ops,
                   lookups, cleared, woke>>

\* line 139: with lock:
LockedAcquireStore(t) ==
    /\ IsLocked
    /\ pc[t] = "acq_store"
    /\ Acquire(t)
    /\ Goto(t, "store")
    /\ UNCHANGED <<config, cache, pending, counters, snapshot, ops, lookups,
                   calls, cleared, woke>>

\* mutation of LockedSetDefault: the caller returns its own value
LockedSetDefaultOwnValue(t) ==
    /\ IsLocked
    /\ pc[t] = "store"
    /\ lock = t
    /\ IF CacheSetDefaultRejects(cache, key[t], val[t])
       THEN UNCHANGED cache
       ELSE cache' = CacheSetDefault(cache, key[t], val[t])
    /\ Return(t, val[t])
    /\ Release(t)
    /\ UNCHANGED <<config, pending, counters, snapshot, ops, lookups, calls,
                   cleared, woke>>

\* lines 140-144: return cache.setdefault(k, v), except ValueError: return v
\* (leaving `with lock`)
LockedSetDefault(t) ==
    /\ IsLocked
    /\ pc[t] = "store"
    /\ lock = t
    /\ IF CacheSetDefaultRejects(cache, key[t], val[t])
       THEN /\ UNCHANGED cache
            /\ Return(t, val[t])
       ELSE /\ cache' = CacheSetDefault(cache, key[t], val[t])
            /\ Return(t, CacheSetDefaultValue(cache, key[t], val[t]))
    /\ Release(t)
    /\ UNCHANGED <<config, pending, counters, snapshot, ops, lookups, calls,
                   cleared, woke>>

\* line 147: cache_clear: with lock:
LockedClearAcquire(t) ==
    /\ IsLocked
    /\ CanStart(t)
    /\ StartOther("-")
    /\ Acquire(t)
    /\ Move(t, "clear")
    /\ UNCHANGED <<config, cache, pending, counters, snapshot, last, lookups,
                   calls, cleared, woke>>

\* line 148: cache.clear() (leaving `with lock`)
LockedClearCache(t) ==
    /\ IsLocked
    /\ pc[t] = "clear"
    /\ lock = t
    /\ cache' = EmptyCache
    /\ cleared' = TRUE
    /\ Release(t)
    /\ Move(t, "idle")
    /\ last' = ClearDone
    /\ UNCHANGED <<config, pending, counters, snapshot, ops, lookups, calls,
                   woke>>

NextLocked ==
    \E t \in Threads :
        \/ \E k \in Keys : LockedCall(t, k)
        \/ LockedAcquireLookup(t)
        \/ LockedLookup(t)
        \/ \E r \in FuncResults : LockedCompute(t, r)
        \/ LockedAcquireStore(t)
        \/ LockedSetDefault(t)
        \/ LockedClearAcquire(t)
        \/ LockedClearCache(t)

\* ----------------------------------------------------- _cachedmethod_locked
IsMethodLocked == strategy = "cachedmethod_locked"

\* mutation of MethodLockedCall: the result of cache(self) is not tested
MethodLockedCallAlwaysCached(t, inst, k) ==
    /\ IsMethodLocked
    /\ Begin(t, k, inst, "acq_lookup")
    /\ UNCHANGED <<config, cache, pending, lock, counters, snapshot, lookups,
                   calls, cleared, woke>>

\* lines 182-185: c = cache(self); if c is None: (the method is called
\* directly); k = key(self, *args, **kwargs)
MethodLockedCall(t, inst, k) ==
    /\ IsMethodLocked
    /\ Begin(t, k, inst, IF HasCache(inst) THEN "acq_lookup" ELSE "direct")
    /\ UNCHANGED <<config, cache, pending, lock, counters, snapshot, lookups,
                   calls, cleared, woke>>

\* line 184: return method(self, *args, **kwargs)
MethodLockedDirect(t, r) ==
    /\ IsMethodLocked
    /\ pc[t] = "direct"
    /\ Return(t, r)
    /\ NoteInvoke(key[t], r)
    /\ UNCHANGED <<config, cache, pending, lock, counters, snapshot, ops,
                   lookups, cleared, woke>>

\* line 186: with lock(self):
MethodLockedAcquireLookup(t) ==
    /\ IsMethodLocked
    /\ pc[t] = "acq_lookup"
    /\ Acquire(t)
    /\ Goto(t, "lookup")
    /\ UNCHANGED <<config, cache, pending, counters, snapshot, ops, lookups,
                   calls, cleared, woke>>

\* lines 187-190: return c[k], except KeyError: pass (leaving `with lock(self)`)
MethodLockedLookup(t) ==
    /\ IsMethodLocked
    /\ pc[t] = "lookup"
    /\ lock = t
    /\ IF cache[key[t]] # None
       THEN Return(t, cache[key[t]])
       ELSE Goto(t, "compute")
    /\ Release(t)
    /\ NoteLookup(key[t], cache[key[t]] # None)
    /\ UNCHANGED <<config, cache, pending, counters, snapshot, ops, calls,
                   cleared, woke>>

\* line 191: v = method(self, *args, **kwargs); an exception leaves the wrapper
MethodLockedCompute(t, r) ==
    /\ IsMethodLocked
    /\ pc[t] = "compute"
    /\ IF r = Raised
       THEN Return(t, Raised)
       ELSE GotoVal(t, "acq_store", r)
    /\ NoteInvoke(key[t], r)
    /\ UNCHANGED <<config, cache, pending, lock, counters, snapshot, ops,
                   lookups, cleared, woke>>

\* line 193: with lock(self):
MethodLockedAcquireStore(t) ==
    /\ IsMethodLocked
    /\ pc[t] = "acq_store"
    /\ Acquire(t)
    /\ Goto(t, "store")
    /\ UNCHANGED <<config, cache, pending, counters, snapshot, ops, lookups,
                   calls, cleared, woke>>

\* lines 194-197: return c.setdefault(k, v), except ValueError: return v
\* (leaving `with lock(self)`)
MethodLockedSetDefault(t) ==
    /\ IsMethodLocked
    /\ pc[t] = "store"
    /\ lock = t
    /\ IF CacheSetDefaultRejects(cache, key[t], val[t])
       THEN /\ UNCHANGED cache
            /\ Return(t, val[t])
       ELSE /\ cache' = CacheSetDefault(cache, key[t], val[t])
            /\ Return(t, CacheSetDefaultValue(cache, key[t], val[t]))
    /\ Release(t)
    /\ UNCHANGED <<config, pending, counters, snapshot, ops, lookups, calls,
                   cleared, woke>>

\* lines 200-202: cache_clear(self): c = cache(self); if c is not None:
\* with lock(self):
MethodLockedClearAcquire(t, inst) ==
    /\ IsMethodLocked
    /\ CanStart(t)
    /\ StartOther(inst)
    /\ IF HasCache(inst)
       THEN Acquire(t) /\ Move(t, "clear")
       ELSE UNCHANGED <<lock, pc, self, key, val>>
    /\ UNCHANGED <<config, cache, pending, counters, snapshot, last, lookups,
                   calls, cleared, woke>>

\* line 203: c.clear() (leaving `with lock(self)`)
MethodLockedClearCache(t) ==
    /\ IsMethodLocked
    /\ pc[t] = "clear"
    /\ lock = t
    /\ cache' = EmptyCache
    /\ cleared' = TRUE
    /\ Release(t)
    /\ Move(t, "idle")
    /\ last' = ClearDone
    /\ UNCHANGED <<config, pending, counters, snapshot, ops, lookups, calls,
                   woke>>

NextMethodLocked ==
    \E t \in Threads :
        \/ \E inst \in Instances, k \in Keys : MethodLockedCall(t, inst, k)
        \/ \E r \in FuncResults : MethodLockedDirect(t, r)
        \/ MethodLockedAcquireLookup(t)
        \/ MethodLockedLookup(t)
        \/ \E r \in FuncResults : MethodLockedCompute(t, r)
        \/ MethodLockedAcquireStore(t)
        \/ MethodLockedSetDefault(t)
        \/ \E inst \in Instances : MethodLockedClearAcquire(t, inst)
        \/ MethodLockedClearCache(t)

\* ---------------------------------------------------- _cached_unlocked_info
IsUnlockedInfo == strategy = "cached_unlocked_info"

\* line 89: k = key(*args, **kwargs)
UnlockedInfoCall(t, k) ==
    /\ IsUnlockedInfo
    /\ OthersIdle(t)
    /\ Begin(t, k, "-", "lookup")
    /\ UNCHANGED <<config, cache, pending, lock, counters, snapshot, lookups,
                   calls, cleared, woke>>

\* lines 90-95: result = cache[k]; hits += 1; return result,
\* except KeyError: misses += 1
UnlockedInfoLookup(t) ==
    /\ IsUnlockedInfo
    /\ pc[t] = "lookup"
    /\ IF cache[key[t]] # None
       THEN /\ hits' = hits + 1
            /\ Return(t, cache[key[t]])
            /\ UNCHANGED misses
       ELSE /\ misses' = misses + 1
            /\ Goto(t, "compute")
            /\ UNCHANGED hits
    /\ NoteLookup(key[t], cache[key[t]] # None)
    /\ UNCHANGED <<config, cache, pending, lock, snapshot, ops, calls,
                   cleared, woke>>

\* line 96: v = func(*args, **kwargs); an exception leaves the wrapper
UnlockedInfoCompute(t, r) ==
    /\ IsUnlockedInfo
    /\ pc[t] = "compute"
    /\ IF r = Raised
       THEN Return(t, Raised)
       ELSE GotoVal(t, "store", r)
    /\ NoteInvoke(key[t], r)
    /\ UNCHANGED <<config, cache, pending, lock, counters, snapshot, ops,
                   lookups, cleared, woke>>

\* mutation of UnlockedInfoStore: the ValueError of a rejected insertion
\* is not caught
UnlockedInfoStoreUncaught(t) ==
    /\ IsUnlockedInfo
    /\ pc[t] = "store"
    /\ IF CacheRejects(cache, key[t], val[t])
       THEN cache' = cache /\ Return(t, ValueErr)
       ELSE cache' = CacheSetItem(cache, key[t], val[t]) /\ Return(t, val[t])
    /\ UNCHANGED <<config, pending, lock, counters, snapshot, ops, lookups,
                   calls, cleared, woke>>

\* lines 97-101: cache[k] = v, except ValueError: pass; return v
UnlockedInfoStore(t) ==
    /\ IsUnlockedInfo
    /\ pc[t] = "store"
    /\ cache' = IF CacheRejects(cache, key[t], val[t])
                THEN cache
                ELSE CacheSetItem(cache, key[t], val[t])
    /\ Return(t, val[t])
    /\ UNCHANGED <<config, pending, lock, counters, snapshot, ops, lookups,
                   calls, cleared, woke>>

\* lines 105-106: cache_clear: cache.clear(); hits = misses = 0
UnlockedInfoClear(t) ==
    /\ IsUnlockedInfo
    /\ CanStart(t)
    /\ OthersIdle(t)
    /\ StartOther("-")
    /\ cache' = EmptyCache
    /\ hits' = 0
    /\ misses' = 0
    /\ cleared' = TRUE
    /\ last' = ClearDone
    /\ UNCHANGED <<config, pending, lock, pc, self, key, val, snapshot,
                   lookups, calls, woke>>

\* line 109: cache_info = lambda: info(hits, misses)
UnlockedInfoInfo(t) ==
    /\ IsUnlockedInfo
    /\ CanStart(t)
    /\ OthersIdle(t)
    /\ StartOther("-")
    /\ snapshot' = <<hits, misses>>
    /\ last' = InfoDone
    /\ UNCHANGED <<config, cache, pending, lock, counters, pc, self, key, val,
                   lookups, calls, cleared, woke>>

NextUnlockedInfo ==
    \E t \in Threads :
        \/ \E k \in Keys : UnlockedInfoCall(t, k)
        \/ UnlockedInfoLookup(t)
        \/ \E r \in FuncResults : UnlockedInfoCompute(t, r)
        \/ UnlockedInfoStore(t)
        \/ UnlockedInfoClear(t)
        \/ UnlockedInfoInfo(t)

\* --------------------------------------------------------- _cached_unlocked
IsUnlocked == strategy = "cached_unlocked"

\* line 156: k = key(*args, **kwargs)
UnlockedCall(t, k) ==
    /\ IsUnlocked
    /\ OthersIdle(t)
    /\ Begin(t, k, "-", "lookup")
    /\ UNCHANGED <<config, cache, pending, lock, counters, snapshot, lookups,
                   calls, cleared, woke>>

\* lines 157-160: return cache[k], except KeyError: pass
UnlockedLookup(t) ==
    /\ IsUnlocked
    /\ pc[t] = "lookup"
    /\ IF cache[key[t]] # None
       THEN Return(t, cache[key[t]])
       ELSE Goto(t, "compute")
    /\ NoteLookup(key[t], cache[key[t]] # None)
    /\ UNCHANGED <<config, cache, pending, lock, counters, snapshot, ops,
                   calls, cleared, woke>>

\* line 161: v = func(*args, **kwargs); an exception leaves the wrapper
UnlockedCompute(t, r) ==
    /\ IsUnlocked
    /\ pc[t] = "compute"
    /\ IF r = Raised
       THEN Return(t, Raised)
       ELSE GotoVal(t, "store", r)
    /\ NoteInvoke(key[t], r)
    /\ UNCHANGED <<config, cache, pending, lock, counters, snapshot, ops,
                   lookups, cleared, woke>>

\* lines 162-166: cache[k] = v, except ValueError: pass; return v
UnlockedStore(t) ==
    /\ IsUnlocked
    /\ pc[t] = "store"
    /\ cache' = IF CacheRejects(cache, key[t], val[t])
                THEN cache
                ELSE CacheSetItem(cache, key[t], val[t])
    /\ Return(t, val[t])
    /\ UNCHANGED <<config, pending, lock, counters, snapshot, ops, lookups,
                   calls, cleared, woke>>

\* line 168: cache_clear = lambda: cache.clear()
UnlockedClear(t) ==
    /\ IsUnlocked
    /\ CanStart(t)
    /\ OthersIdle(t)
    /\ StartOther("-")
    /\ cache' = EmptyCache
    /\ cleared' = TRUE
    /\ last' = ClearDone
    /\ UNCHANGED <<config, pending, lock, counters, pc, self, key, val,
                   snapshot, lookups, calls, woke>>

NextUnlocked ==
    \E t \in Threads :
        \/ \E k \in Keys : UnlockedCall(t, k)
        \/ UnlockedLookup(t)
        \/ \E r \in FuncResults : UnlockedCompute(t, r)
        \/ UnlockedStore(t)
        \/ UnlockedClear(t)

\* --------------------------------------------------- _cachedmethod_unlocked
IsMethodUnlocked == strategy = "cachedmethod_unlocked"

\* lines 211-214: c = cache(self); if c is None: (the method is called
\* directly); k = key(self, *args, **kwargs)
MethodUnlockedCall(t, inst, k) ==
    /\ IsMethodUnlocked
    /\ OthersIdle(t)
    /\ Begin(t, k, inst, IF HasCache(inst) THEN "lookup" ELSE "direct")
    /\ UNCHANGED <<config, cache, pending, lock, counters, snapshot, lookups,
                   calls, cleared, woke>>

\* line 213: return method(self, *args, **kwargs)
MethodUnlockedDirect(t, r) ==
    /\ IsMethodUnlocked
    /\ pc[t] = "direct"
    /\ Return(t, r)
    /\ NoteInvoke(key[t], r)
    /\ UNCHANGED <<config, cache, pending, lock, counters, snapshot, ops,
                   lookups, cleared, woke>>

\* lines 215-218: return c[k], except KeyError: pass
MethodUnlockedLookup(t) ==
    /\ IsMethodUnlocked
    /\ pc[t] = "lookup"
    /\ IF cache[key[t]] # None
       THEN Return(t, cache[key[t]])
       ELSE Goto(t, "compute")
    /\ NoteLookup(key[t], cache[key[t]] # None)
    /\ UNCHANGED <<config, cache, pending, lock, counters, snapshot, ops,
                   calls, cleared, woke>>

\* line 219: v = method(self, *args, **kwargs); an exception leaves the wrapper
MethodUnlockedCompute(t, r) ==
    /\ IsMethodUnlocked
    /\ pc[t] = "compute"
    /\ IF r = Raised
       THEN Return(t, Raised)
       ELSE GotoVal(t, "store", r)
    /\ NoteInvoke(key[t], r)
    /\ UNCHANGED <<config, cache, pending, lock, counters, snapshot, ops,
                   lookups, cleared, woke>>

\* lines 220-224: c[k] = v, except ValueError: pass; return v
MethodUnlockedStore(t) ==
    /\ IsMethodUnlocked
    /\ pc[t] = "store"
    /\ cache' = IF CacheRejects(cache, key[t], val[t])
                THEN cache
                ELSE CacheSetItem(cache, key[t], val[t])
    /\ Return(t, val[t])
    /\ UNCHANGED <<config, pending, lock, counters, snapshot, ops, lookups,
                   calls, cleared, woke>>

\* lines 227-229: cache_clear(self): c = cache(self); if c is not None:
\* c.clear()
MethodUnlockedClear(t, inst) ==
    /\ IsMethodUnlocked
    /\ CanStart(t)
    /\ OthersIdle(t)
    /\ StartOther(inst)
    /\ IF HasCache(inst)
       THEN cache' = EmptyCache /\ cleared' = TRUE /\ last' = ClearDone
       ELSE UNCHANGED <<cache, cleared, last>>
    /\ UNCHANGED <<config, pending, lock, counters, pc, self, key, val,
                   snapshot, lookups, calls, woke>>

NextMethodUnlocked ==
    \E t \in Threads :
        \/ \E inst \in Instances, k \in Keys : MethodUnlockedCall(t, inst, k)
        \/ \E r \in FuncResults : MethodUnlockedDirect(t, r)
        \/ MethodUnlockedLookup(t)
        \/ \E r \in FuncResults : MethodUnlockedCompute(t, r)
        \/ MethodUnlockedStore(t)
        \/ \E inst \in Instances : MethodUnlockedClear(t, inst)

\* ---------------------------------------------------------- _uncached_info
IsUncachedInfo == strategy = "uncached_info"

\* line 118: misses += 1
UncachedInfoCall(t, k) ==
    /\ IsUncachedInfo
    /\ OthersIdle(t)
    /\ Begin(t, k, "-", "direct")
    /\ misses' = misses + 1
    /\ UNCHANGED <<config, cache, pending, lock, hits, snapshot, lookups,
                   calls, cleared, woke>>

\* line 119: return func(*args, **kwargs)
UncachedInfoCompute(t, r) ==
    /\ IsUncachedInfo
    /\ pc[t] = "direct"
    /\ Return(t, r)
    /\ NoteInvoke(key[t], r)
    /\ UNCHANGED <<config, cache, pending, lock, counters, snapshot, ops,
                   lookups, cleared, woke>>

\* lines 122-123: cache_clear: misses = 0
UncachedInfoClear(t) ==
    /\ IsUncachedInfo
    /\ CanStart(t)
    /\ OthersIdle(t)
    /\ StartOther("-")
    /\ misses' = 0
    /\ cleared' = TRUE
    /\ last' = ClearDone
    /\ UNCHANGED <<config, cache, pending, lock, hits, pc, self, key, val,
                   snapshot, lookups, calls, woke>>

\* line 126: cache_info = lambda: info(0, misses)
UncachedInfoInfo(t) ==
    /\ IsUncachedInfo
    /\ CanStart(t)
    /\ OthersIdle(t)
    /\ StartOther("-")
    /\ snapshot' = <<0, misses>>
    /\ last' = InfoDone
    /\ UNCHANGED <<config, cache, pending, lock, counters, pc, self, key, val,
                   lookups, calls, cleared, woke>>

NextUncachedInfo ==
    \E t \in Threads :
        \/ \E k \in Keys : UncachedInfoCall(t, k)
        \/ \E r \in FuncResults : UncachedInfoCompute(t, r)
        \/ UncachedInfoClear(t)
        \/ UncachedInfoInfo(t)

\* --------------------------------------------------------------- _uncached
IsUncached == strategy = "uncached"

\* line 173: wrapper(*args, **kwargs)
UncachedCall(t, k) ==
    /\ IsUncached
    /\ OthersIdle(t)
    /\ Begin(t, k, "-", "direct")
    /\ UNCHANGED <<config, cache, pending, lock, counters, snapshot, lookups,
                   calls, cleared, woke>>

\* line 174: return func(*args, **kwargs)
UncachedCompute(t, r) ==
    /\ IsUncached
    /\ pc[t] = "direct"
    /\ Return(t, r)
    /\ NoteInvoke(key[t], r)
    /\ UNCHANGED <<config, cache, pending, lock, counters, snapshot, ops,
                   lookups, cleared, woke>>

\* line 176: cache_clear = lambda: None
UncachedClear(t) ==
    /\ IsUncached
    /\ CanStart(t)
    /\ OthersIdle(t)
    /\ StartOther("-")
    /\ cleared' = TRUE
    /\ last' = ClearDone
    /\ UNCHANGED <<config, cache, pending, lock, counters, pc, self, key, val,
                   snapshot, lookups, calls, woke>>

NextUncached ==
    \E t \in Threads :
        \/ \E k \in Keys : UncachedCall(t, k)
        \/ \E r \in FuncResults : UncachedCompute(t, r)
        \/ UncachedClear(t)

\* ------------------------------------------------------------ construction
\* _cached_wrapper takes an optional cache, lock and info; _cachedmethod_wrapper
\* always takes a cache accessor and never an info
Configs ==
    [cache : BOOLEAN, lock : LockKinds, info : BOOLEAN, method : {FALSE}]
        \cup [cache : {TRUE}, lock : LockKinds, info : {FALSE}, method : {TRUE}]

StrategyOf(c) ==
    IF c.method THEN CachedMethodWrapper(c.lock)
    ELSE CachedWrapper(c.cache, c.lock, c.info)

\* capacities of the cache handed to the wrapper: rejecting every insertion,
\* holding one entry, holding every key
MaxSizes == {0, 1, Cardinality(Keys)}

\* the state after construction from the inputs c
InitWith(c) ==
    /\ cfg = c
    /\ strategy = StrategyOf(c)
    /\ maxsize \in (IF c.cache THEN MaxSizes ELSE {0})
    /\ cache = EmptyCache
    /\ pending = {}
    /\ lock = None
    /\ hits = 0
    /\ misses = 0
    /\ pc = [t \in Threads |-> "idle"]
    /\ self = [t \in Threads |-> "-"]
    /\ key = [t \in Threads |-> None]
    /\ val = [t \in Threads |-> None]
    /\ snapshot = <<0, 0>>
    /\ last = <<"none", None>>
    /\ ops = [calls |-> 0, other |-> 0, on |-> "-"]
    /\ nFound = 0
    /\ nNotFound = 0
    /\ seen = {}
    /\ invoked = [j \in Keys |-> 0]
    /\ cleared = FALSE
    /\ raised = FALSE
    /\ returned = FALSE
    /\ woke = [t \in Threads |-> None]

\* every wrapper the two selectors can build
Init == \E c \in Configs : InitWith(c)

Next ==
    \/ NextCond
    \/ NextLockedInfo
    \/ NextLocked
    \/ NextMethodLocked
    \/ NextUnlockedInfo
    \/ NextUnlocked
    \/ NextMethodUnlocked
    \/ NextUncachedInfo
    \/ NextUncached

Spec == Init /\ [][Next]_vars

\* the Condition-Gated wrapper alone
InitCond ==
    InitWith([cache |-> TRUE, lock |-> "cond", info |-> TRUE, method |-> FALSE])

SpecCond == InitCond /\ [][NextCond]_vars

\* what thread t does once its call has started: the scheduler runs every
\* thread that can take a step, and func returns or raises
CondProgress(t) ==
    \/ CondAcquireLookup(t)
    \/ CondWaitFor(t)
    \/ CondWake(t)
    \/ CondLookup(t)
    \/ CondHit(t)
    \/ CondMiss(t)
    \/ \E r \in FuncResults : CondCompute(t, r)
    \/ CondAcquireStore(t)
    \/ CondStore(t)
    \/ CondAcquireCleanup(t)
    \/ CondCleanup(t)
    \/ CondClearCache(t)
    \/ CondClearReset(t)

SpecCondFair == SpecCond /\ \A t \in Threads : WF_vars(CondProgress(t))

\* the wrappers that guard the cache with a lock
InitLocking ==
    \E c \in Configs : c.cache /\ c.lock # "none" /\ InitWith(c)

NextLocking ==
    \/ NextCond
    \/ NextLockedInfo
    \/ NextLocked
    \/ NextMethodLocked

SpecLocking == InitLocking /\ [][NextLocking]_vars

\* the wrappers _cached_wrapper can build, from every kind of lock
SelectorConfigs ==
    [cache : BOOLEAN, lock : LockKinds \cup PartialLockKinds, info : BOOLEAN,
     method : {FALSE}]

InitSelector ==
    \E c \in SelectorConfigs : InitWith(c) /\ maxsize = (IF c.cache THEN 1 ELSE 0)

NextSelector ==
    \/ NextCond
    \/ NextLockedInfo
    \/ NextLocked
    \/ NextUnlockedInfo
    \/ NextUnlocked
    \/ NextUncachedInfo
    \/ NextUncached

SpecSelector == InitSelector /\ [][NextSelector]_vars

\* single-threaded use of any wrapper: at most one operation in flight
OneInFlight == \A t, u \in Threads : t = u \/ Idle(t) \/ Idle(u)

NextSequential == Next /\ OneInFlight'

SpecSequential == Init /\ [][NextSequential]_vars

\* ====================================================================== C1
\* the callers that have added their key to pending and not yet removed it
Computing(t) ==
    pc[t] \in {"compute", "acq_store", "store", "acq_cleanup", "cleanup"}

\* the callers that have not yet got past wait_for
BeforeLookup(t) == pc[t] \in {"acq_lookup", "wait_for", "waiting", "woken"}

\* C1: Condition-Gated: while a caller is between pending.add(k) and
\* pending.remove(k), k is in pending, no other caller is computing k, and
\* every other caller in flight for k has not got past wait_for.
C1_OneComputerPerKey ==
    \A t \in Threads :
        Computing(t) =>
            /\ key[t] \in pending
            /\ \A u \in Threads \ {t} :
                   (~Idle(u) /\ pc[u] \notin {"clear", "reset"} /\ key[u] = key[t])
                       => BeforeLookup(u)

C1_Witness ==
    \E t, u \in Threads :
        /\ Computing(t)
        /\ pc[u] = "waiting"
        /\ key[u] = key[t]

\* ====================================================================== C2
\* the cache accepts every insertion and never evicts
Retaining == maxsize >= Cardinality(Keys)

\* C2: Condition-Gated, a retaining cache, no failure of the function and no
\* cache_clear: the function is invoked at most once per key, exactly once
\* for a key once a call for it has found or returned its value; a caller
\* woken from wait_for never misses: it hits and reads the stored value.
C2_ComputedOncePerKey ==
    (Retaining /\ ~cleared /\ ~raised) =>
        /\ \A k \in Keys : invoked[k] <= 1
        /\ \A t \in Threads :
               /\ pc[t] = "hit" => (invoked[key[t]] = 1 /\ val[t] = cache[key[t]])
               /\ woke[t] # None => (~Computing(t) /\ pc[t] # "miss")
        /\ last[1] = "return" =>
               \E k \in Keys : cache[k] = last[2] /\ invoked[k] = 1

C2_Witness ==
    /\ Retaining /\ ~cleared /\ ~raised
    /\ \E t \in Threads : pc[t] = "hit" /\ woke[t] = val[t]

\* ====================================================================== C3
\* C3 as claimed: a waiter woken by the cleanup of a failed computation of
\* its key misses and computes itself: it neither hits nor waits again.
C3_WokenWaiterAlwaysComputes ==
    \A t \in Threads : woke[t] = Raised => pc[t] \notin {"hit", "waiting"}

\* what one step does to caller t on the failure path of Condition-Gated
C3_FailureStep(t) ==
    \* the cleanup of a failed computation removes k, wakes every waiter,
    \* stores nothing and re-raises
    /\ (pc[t] = "cleanup" /\ val[t] = Raised /\ pc'[t] # pc[t]) =>
           /\ key[t] \notin pending'
           /\ \A u \in Threads : pc'[u] # "waiting"
           /\ cache' = cache
           /\ last' = Returned(Raised)
    \* only the caller whose own computation raised leaves with the failure
    /\ (~Idle(t) /\ pc'[t] = "idle" /\ last' = Returned(Raised)) =>
           (pc[t] = "cleanup" /\ val[t] = Raised)
    \* a waiter woken by that cleanup evaluates the predicate again, then
    \* the cache, and goes on to compute exactly when both let it through
    /\ (woke[t] = Raised /\ pc[t] = "wait_for" /\ pc'[t] # pc[t]) =>
           pc'[t] = IF key[t] \in pending THEN "waiting" ELSE "lookup"
    /\ (woke[t] = Raised /\ pc[t] = "lookup" /\ pc'[t] # pc[t]) =>
           /\ pc'[t] = IF cache[key[t]] = None THEN "miss" ELSE "hit"
           /\ val'[t] = cache[key[t]]
    /\ (woke[t] = Raised /\ pc[t] = "miss" /\ pc'[t] # pc[t]) =>
           pc'[t] = "compute"

\* C3 (amended): Condition-Gated, failure path: a caller whose computation
\* raised still holds k in pending until its cleanup, which removes k, wakes
\* all waiters, stores nothing and re-raises to that caller alone; a woken
\* waiter re-checks pending and the cache and computes itself unless another
\* caller has re-added k (it waits again) or stored a value (it hits).
C3_FailurePath ==
    /\ [](\A t \in Threads :
              val[t] = Raised =>
                  (pc[t] \in {"acq_cleanup", "cleanup"} /\ key[t] \in pending))
    /\ [][\A t \in Threads : C3_FailureStep(t)]_vars

C3_Witness ==
    \E t \in Threads : woke[t] = Raised /\ pc[t] = "compute"

\* ====================================================================== C4
\* C4: Condition-Gated, under fair scheduling and a function that always
\* returns or raises: every started operation finishes (every call returns
\* or raises; no caller waits forever), and while an operation is in flight
\* some thread can take a step (no deadlock).
C4_EveryCallReturns ==
    /\ \A t \in Threads : (~Idle(t)) ~> Idle(t)
    /\ []((\E t \in Threads : ~Idle(t)) =>
              (\E t \in Threads : ENABLED <<CondProgress(t)>>_vars))

C4_Witness ==
    \E t \in Threads : woke[t] # None /\ pc[t] \in {"hit", "compute"}

\* ====================================================================== C5
\* C5: Locked and Condition-Gated wrappers, a retaining cache and no
\* cache_clear: no step replaces the value stored for a key, so the cache
\* never holds two different values for one key.
C5_StoredValueNeverReplaced ==
    [][(Retaining /\ ~cleared') =>
           \A k \in Keys : cache[k] # None => cache'[k] = cache[k]]_vars

\* a caller holds the lock at the insert step with a value that differs
\* from the one another caller has stored for its key
C5_Witness ==
    /\ Retaining /\ ~cleared
    /\ \E t \in Threads :
           /\ pc[t] = "store"
           /\ lock = t
           /\ cache[key[t]] # None
           /\ cache[key[t]] # val[t]

\* ====================================================================== C6
\* the wrappers built by _cached_locked, _cached_locked_info and
\* _cachedmethod_locked
IsLockedFamily == IsLocked \/ IsLockedInfo \/ IsMethodLocked

\* the insert step of caller t in a Locked wrapper
C6_InsertStep(t) ==
    (pc[t] = "store" /\ pc'[t] # pc[t]) =>
        IF cache[key[t]] # None
        THEN \* a value is already stored: it stays and is what t returns
             /\ cache' = cache
             /\ last' = Returned(cache[key[t]])
        ELSE \* t returns its own value, unstored only when the cache rejects it
             /\ last' = Returned(val[t])
             /\ \/ cache'[key[t]] = val[t]
                \/ (maxsize = 0 /\ cache' = cache)

\* C6: Locked wrappers, race resolution: the caller that reaches the insert
\* step when a value is already stored for its key leaves it in place and
\* returns it instead of its own; otherwise it stores and returns its own
\* value, which stays unstored only when the cache rejects the insertion.
C6_FirstWriterWins ==
    [][IsLockedFamily => \A t \in Threads : C6_InsertStep(t)]_vars

\* two callers missed and computed the same key, and the one that inserted
\* second has just returned the value that is stored
C6_Witness ==
    /\ IsLockedFamily /\ Retaining /\ ~cleared
    /\ \A t \in Threads : Idle(t)
    /\ \E k \in Keys :
           /\ seen = {k} /\ nNotFound = 2 /\ nFound = 0 /\ invoked[k] = 2
           /\ last = Returned(cache[k])

\* ====================================================================== C7
\* the callers inside the lookup section whose lookup is not yet counted
Uncounted(p) == Cardinality({t \in Threads : pc[t] = p})

\* without a cache_clear the counters account for every lookup that has
\* left its critical section, and a lookup is counted before the lock is
\* released
C7_CountersMatchLookups ==
    /\ \A t \in Threads : pc[t] \in {"lookup", "hit", "miss"} => lock = t
    /\ ~cleared =>
           /\ hits = nFound - Uncounted("hit")
           /\ misses = nNotFound - Uncounted("miss")

\* C7: Locked+Stats and Condition-Gated+Stats: hits and misses change only
\* in a step of the thread that holds the lock, in the critical section of
\* the lookup they count; without cache_clear, hits and misses equal the
\* numbers of finished lookups that found and did not find the key.
C7_CountersUnderLock ==
    /\ [](cfg.info => C7_CountersMatchLookups)
    /\ [][(cfg.info /\ (hits' # hits \/ misses' # misses)) =>
              (lock \in Threads /\ pc'[lock] # pc[lock] /\ lock' = None)]_vars

\* a hit being counted while another caller computes, after a counted miss
C7_Witness ==
    /\ cfg.info /\ ~cleared /\ misses >= 1
    /\ \E t, u \in Threads : pc[t] = "hit" /\ pc[u] = "compute"

\* ====================================================================== C8
\* C8: single-threaded use of a cached wrapper with stats, a retaining
\* cache, no failure and no cache_clear: once the N calls made so far have
\* returned, with K distinct keys among them, misses = K and hits = N - K.
C8_MissesAreDistinctKeys ==
    (cfg.info /\ cfg.cache /\ Retaining /\ ~raised /\ ~cleared
        /\ \A t \in Threads : Idle(t)) =>
            /\ misses = Cardinality(seen)
            /\ hits = ops.calls - Cardinality(seen)
            /\ snapshot \in {<<0, 0>>} \cup
                   {<<n - Cardinality(s), Cardinality(s)>> :
                        n \in 0..ops.calls, s \in SUBSET seen}

\* three calls, two distinct keys, all returned
C8_Witness ==
    /\ cfg.info /\ cfg.cache /\ Retaining /\ ~raised /\ ~cleared
    /\ \A t \in Threads : Idle(t)
    /\ ops.calls = 3 /\ seen = Keys /\ hits = 1 /\ misses = 2

\* ====================================================================== C9
\* the state a cache_clear leaves: no entry, both counters zero
C9_Cleared == cache = EmptyCache /\ hits = 0 /\ misses = 0

\* C9: in every wrapper, when cache_clear has just returned the cache is
\* empty and the counters are zero; a cache_clear that runs right after
\* another changes nothing; a cache_info right after a cache_clear returns
\* (0, 0).
C9_ClearIdempotent ==
    /\ [](JustCleared => C9_Cleared)
    /\ [](last[1] = "info0" => snapshot = <<0, 0>>)
    /\ [][(last[1] \in {"clear", "clear2"} /\ last'[1] \in {"clear", "clear2"}) =>
              UNCHANGED <<cache, hits, misses, pending>>]_vars

\* after a call that filled the cache and counted a miss, cache_clear ran
\* twice in a row
C9_Witness ==
    /\ cfg.info /\ cfg.cache /\ maxsize > 0
    /\ nNotFound >= 1
    /\ last[1] = "clear2"

\* ===================================================================== C10
\* the cache rejects every insertion
RejectsAll == cfg.cache /\ maxsize = 0

\* the step with which a call leaves its store (or, in the condition
\* strategy, its cleanup) returns the value its own invocation computed
C10_ReturnStep(t) ==
    (pc[t] \in {"store", "cleanup"} /\ pc'[t] = "idle") => last' = Returned(val[t])

\* C10: with a cache that rejects every insertion, in every strategy the
\* cache stays empty, no lookup ever finds a key and hits stays 0, every
\* call returns what the function computed in that call (a value, or the
\* function's own exception) and never the cache's ValueError; with stats
\* every lookup is counted as a miss, so once all calls have returned and
\* no cache_clear ran, misses is the number of calls.
C10_RejectingCache ==
    /\ [](RejectsAll =>
            /\ cache = EmptyCache
            /\ nFound = 0
            /\ hits = 0
            /\ \A t \in Threads : pc[t] \in {"store", "acq_cleanup", "cleanup"} => val[t] \in FuncResults
            /\ last[1] = "return" => last[2] \in FuncResults
            /\ (cfg.info /\ ~cleared) => misses = nNotFound - Uncounted("miss")
            /\ (cfg.info /\ ~cleared /\ \A t \in Threads : Idle(t)) => misses = ops.calls)
    /\ [][RejectsAll => \A t \in Threads : C10_ReturnStep(t)]_vars

\* two calls with the same key have returned from a rejecting cache with
\* stats: both were misses, the last one returned a computed value
C10_Witness ==
    /\ RejectsAll /\ cfg.info /\ ~cleared
    /\ \A t \in Threads : Idle(t)
    /\ ops.calls = 2
    /\ Cardinality(seen) = 1
    /\ misses = 2 /\ hits = 0
    /\ last[1] = "return" /\ last[2] \in Vals

\* ===================================================================== C11
\* thread t's wrapper call exits in this step
CallExits(t) == pc[t] \notin {"idle", "clear", "reset"} /\ pc'[t] = "idle"

\* a cache_clear or cache_info can start
CanStartOther == ENABLED (Next /\ ops'.other = ops.other + 1)

\* C11: as long as the underlying function has raised on every invocation,
\* in every strategy every call that exits raises that failure, the cache
\* stays as it was (empty: no failure is stored), no lookup finds a key, a
\* call that has exited has left its key out of the pending set, and once
\* the calls have exited the lock is free and the pending set is empty, so
\* that a following cache_clear can start; a running cache_clear holds the
\* lock it needs to complete.
C11_AlwaysRaising ==
    /\ [](~returned =>
            /\ cache = EmptyCache
            /\ nFound = 0
            /\ \A t \in Threads : val[t] \in {None, Raised}
            /\ last[1] = "return" => last[2] = Raised
            /\ (\A t \in Threads : Idle(t)) => (lock = None /\ pending = {})
            /\ ((\A t \in Threads : Idle(t)) /\ ops.calls + ops.other < MaxOps) => CanStartOther
            /\ \A t \in Threads :
                 (pc[t] \in {"clear", "reset"} /\ cfg.lock # "none") => lock = t)
    /\ [][~returned' =>
            /\ cache' = cache
            /\ \A t \in Threads :
                 CallExits(t) => (last' = Returned(Raised) /\ key[t] \notin pending')]_vars

\* in the condition strategy every invocation so far has raised, the calls
\* have exited and a cache_clear has completed after them
C11_Witness ==
    /\ IsCond
    /\ raised /\ ~returned
    /\ invoked[1] >= 1
    /\ \A t \in Threads : Idle(t)
    /\ pending = {}
    /\ last[1] = "clear"

\* ===================================================================== C12
\* thread t takes a step of a method call on the instance without a cache
StepOnA(t) == pc'[t] # pc[t] /\ (self[t] = "A" \/ self'[t] = "A")

\* a cache_clear(self) starts on the instance without a cache
ClearOnA == ops'.other = ops.other + 1 /\ ops'.on = "A"

\* the step is made by an operation on the instance with a cache
StepOnB ==
    \/ \E t \in Threads : pc'[t] # pc[t] /\ (self[t] = "B" \/ pc[t] = "clear")
    \/ ops'.other = ops.other + 1 /\ ops'.on = "B"

\* C12: in the method wrappers a call on instance A (its cache accessor
\* returns None) is always at the direct invocation of the method and never
\* holds the lock; each of its steps leaves the cache, the lock and the
\* lookup history unchanged and it returns what the method returned or
\* raised; cache_clear on A changes nothing; the cache of B changes only in
\* steps of operations on B.
C12_NoCacheInstance ==
    /\ [](cfg.method =>
            \A t \in Threads :
                /\ self[t] = "A" <=> pc[t] = "direct"
                /\ self[t] = "A" => lock # t)
    /\ [][cfg.method =>
            /\ \A t \in Threads :
                 /\ StepOnA(t) => UNCHANGED <<cache, lock, nFound, nNotFound, seen, cleared>>
                 /\ (pc[t] = "direct" /\ pc'[t] = "idle") =>
                        /\ last'[1] = "return" /\ last'[2] \in FuncResults
                        /\ invoked'[key[t]] = invoked[key[t]] + 1
            /\ ClearOnA => UNCHANGED <<cache, lock, pc, cleared, last, pending, hits, misses>>
            /\ cache' # cache => StepOnB]_vars

\* a call on A is at the direct invocation for a key that B's cache holds,
\* while a call on B holds the lock
C12_Witness ==
    /\ IsMethodLocked
    /\ \E t, u \in Threads :
         /\ pc[t] = "direct" /\ self[t] = "A"
         /\ cache[key[t]] # None
         /\ self[u] = "B" /\ lock = u

\* ===================================================================== C13
\* the lock exposes both a wait-until-predicate and a broadcast-wake operation
C13_ConditionCapable == HasAttr(cfg.lock, "wait_for") /\ HasAttr(cfg.lock, "notify_all")

\* the strategy table, by cache, then exclusion primitive, then stats
C13_Table ==
    IF ~cfg.cache THEN (IF cfg.info THEN "uncached_info" ELSE "uncached")
    ELSE IF cfg.lock = "none"
         THEN (IF cfg.info THEN "cached_unlocked_info" ELSE "cached_unlocked")
    ELSE IF C13_ConditionCapable /\ cfg.info THEN "cached_cond_info"
    ELSE (IF cfg.info THEN "cached_locked_info" ELSE "cached_locked")

\* the strategies one of whose steps is possible
C13_Active ==
    {s \in {"cond", "locked_info", "locked", "unlocked_info", "unlocked",
            "uncached_info", "uncached"} :
        \/ s = "cond" /\ ENABLED NextCond
        \/ s = "locked_info" /\ ENABLED NextLockedInfo
        \/ s = "locked" /\ ENABLED NextLocked
        \/ s = "unlocked_info" /\ ENABLED NextUnlockedInfo
        \/ s = "unlocked" /\ ENABLED NextUnlocked
        \/ s = "uncached_info" /\ ENABLED NextUncachedInfo
        \/ s = "uncached" /\ ENABLED NextUncached}

\* C13: _cached_wrapper chooses the strategy the table gives for its cache,
\* lock and info; the steps of at most one strategy are ever possible, and
\* of exactly one while operations may still start; without info no
\* cache_info result is ever produced; only the condition strategy uses the
\* pending set or makes a caller wait (so a condition-capable lock without
\* info gives plain locking without de-duplication); the choice never
\* changes.
C13_StrategyTable ==
    /\ [](/\ strategy = C13_Table
          /\ Cardinality(C13_Active) <= 1
          /\ ops.calls + ops.other < MaxOps => Cardinality(C13_Active) = 1
          /\ ~cfg.info => (snapshot = <<0, 0>> /\ last[1] \notin {"info", "info0"})
          /\ strategy # "cached_cond_info" =>
                (pending = {} /\ \A t \in Threads : pc[t] \notin {"wait_for", "waiting", "woken"}))
    /\ [][strategy' = strategy /\ cfg' = cfg]_vars

\* with a condition-capable lock and no info, two callers compute the same
\* key at the same time
C13_Witness ==
    /\ cfg.cache /\ ~cfg.info
    /\ C13_ConditionCapable
    /\ strategy = "cached_locked"
    /\ \E t, u \in Threads : t # u /\ pc[t] = "compute" /\ pc[u] = "compute" /\ key[t] = key[u]

\* ===================================================================== C14
\* thread t is about to invoke, or is inside, the underlying function
InFunction(t) == pc[t] \in {"compute", "direct"}

\* C14: in the strategies with a lock no caller is in the underlying
\* function while it holds the lock; the step that invokes the function is
\* made without the lock; the step that takes a caller to the function
\* leaves the lock free, and a caller gets the lock again (to store, or to
\* clean up) only once its function has returned or raised.
C14_NoLockWhileComputing ==
    /\ [](\A t \in Threads : InFunction(t) => lock # t)
    /\ [][\A t \in Threads :
            /\ (InFunction(t) /\ pc'[t] # pc[t]) =>
                   (lock # t /\ lock' # t /\ invoked'[key[t]] = invoked[key[t]] + 1)
            /\ (pc[t] = "miss" /\ pc'[t] = "compute") => lock' = None
            /\ (pc[t] = "lookup" /\ pc'[t] = "compute") => lock' = None
            /\ (pc'[t] \in {"store", "cleanup"} /\ pc[t] # pc'[t]) =>
                   (pc[t] \in {"acq_store", "acq_cleanup"} /\ val[t] \in FuncResults /\ lock = None)]_vars

\* a caller is in the function while another caller holds the lock for its
\* own lookup
C14_Witness ==
    \E t, u \in Threads :
        /\ pc[t] = "compute"
        /\ lock = u /\ u # t
        /\ pc[u] \in {"lookup", "hit", "miss"}

\* ===================================================================== C15
\* thread t is inside cache_clear
Clearing(t) == pc[t] \in {"clear", "reset"}

\* thread t is in a section of the wrapper that reads or writes the cache
\* or the counters
InGuardedSection(t) == pc[t] \in {"wait_for", "lookup", "hit", "miss", "store", "cleanup"}

\* what a step that is not thread t's may do while t is inside cache_clear:
\* start a call, wait for the lock, run the function; it produces no
\* cache_info result
C15_OtherStep(t) ==
    /\ UNCHANGED <<cache, hits, misses, pending, snapshot, lock>>
    /\ last'[1] \notin {"info", "info0"}
    /\ \A u \in Threads \ {t} : ~InGuardedSection(u)' /\ ~Clearing(u)'

\* C15: in the strategies with a lock cache_clear runs under the lock from
\* its first statement to its last: while a thread is inside it no other
\* thread is in a guarded section or in cache_clear, and no step of another
\* thread reads or changes the cache or the counters or produces a
\* cache_info result; when cache_clear returns, the cache is empty and (in
\* the variants with counters) hits and misses are zero in the same state.
C15_ClearUnderLock ==
    /\ [](\A t \in Threads :
            Clearing(t) =>
                /\ lock = t
                /\ \A u \in Threads \ {t} : ~InGuardedSection(u) /\ ~Clearing(u))
    /\ [][\A t \in Threads :
            /\ (Clearing(t) /\ pc'[t] = pc[t]) => C15_OtherStep(t)
            /\ (Clearing(t) /\ pc'[t] = "idle") =>
                   /\ cache' = EmptyCache
                   /\ cfg.info => (hits' = 0 /\ misses' = 0)
                   /\ lock' = None]_vars

\* cache_clear has emptied the cache and not yet reset the counters, while
\* another caller waits for the lock to do its lookup
C15_Witness ==
    /\ cfg.info
    /\ \E t, u \in Threads :
         /\ pc[t] = "reset"
         /\ hits + misses > 0
         /\ pc[u] = "acq_lookup"

\* ===================================================================== C16
\* C16 as stated: the pending check and the cache lookup are separate
\* guarded sections, the lock being released between them, so that a caller
\* whose check succeeded may look up and compute a key that is pending
\* again.
C16_SeparateSections ==
    [][\A t \in Threads : (pc[t] = "wait_for" /\ pc'[t] = "lookup") => lock' # t]_vars

\* C16, amended: the pending check and the cache lookup are one guarded
\* section: wait_for returns with the lock held and the lookup follows
\* under the same hold.  A caller at its lookup, hit or miss owns the lock
\* and its key is not pending; no two callers are computing, storing or
\* cleaning up the same key at once.  A caller whose check finds the key
\* pending (again) waits (again).
C16_CheckAndLookupAtomic ==
    /\ [](\A t \in Threads :
            pc[t] \in {"lookup", "hit", "miss"} => (lock = t /\ key[t] \notin pending))
    /\ [](\A t, u \in Threads :
            (t # u /\ Computing(t) /\ Computing(u)) => key[t] # key[u])
    /\ [][\A t \in Threads :
            (pc[t] = "wait_for" /\ pc'[t] # pc[t]) =>
                IF key[t] \in pending
                THEN pc'[t] = "waiting" /\ lock' = None
                ELSE pc'[t] = "lookup" /\ lock' = t /\ UNCHANGED <<pending, cache>>]_vars

\* a woken waiter has passed the pending check and missed at its lookup,
\* still holding the lock, and is about to add its key and compute
C16_Witness ==
    \E t \in Threads : woke[t] # None /\ pc[t] = "miss" /\ lock = t /\ key[t] \notin pending

\* ===================================================================== C17
\* keys of the callers that have recorded a miss and not yet cleaned up
KeysBeingComputed == {key[t] : t \in {u \in Threads : Computing(u)}}

\* C17: in the condition strategy the pending set is exactly the set of keys
\* of callers between their recorded miss and their cleanup, so it is empty
\* when no call is in flight; a key enters it in the step that counts the
\* miss, made under the lock of the lookup, and leaves it in the cleanup
\* step of the caller that holds that key; no step of cache_clear changes
\* it.
C17_PendingInvariant ==
    /\ [](pending = KeysBeingComputed)
    /\ []((\A t \in Threads : pc[t] \in {"idle", "clear", "reset"}) => pending = {})
    /\ [][/\ \A k \in pending' \ pending :
                \E t \in Threads :
                    /\ pc[t] = "miss" /\ pc'[t] = "compute" /\ key[t] = k
                    /\ lock = t /\ misses' = misses + 1
                    /\ pending' = pending \cup {k}
          /\ \A k \in pending \ pending' :
                \E t \in Threads :
                    /\ pc[t] = "cleanup" /\ pc'[t] = "idle" /\ key[t] = k
                    /\ lock = t
                    /\ pending' = pending \ {k}
          /\ \A t \in Threads :
                (Clearing(t)' \/ Clearing(t)) /\ pc'[t] # pc[t] => pending' = pending]_vars

\* cache_clear is about to return while a key is pending
C17_Witness ==
    \E t, u \in Threads :
        /\ pc[t] = "reset"
        /\ pc[u] = "compute"
        /\ pending = {key[u]}

\* ===================================================================== C18
\* C18: in the strategies with a lock a caller at the function call can
\* always make its step, whatever the other callers do and whoever holds
\* the lock; in the condition strategy a caller waits, and goes on waiting,
\* only while its own key is pending: a pending key never makes the caller
\* of a different key wait.
C18_DifferentKeysIndependent ==
    /\ [](\A t \in Threads :
            pc[t] = "compute" => ENABLED (NextLocking /\ pc'[t] # "compute"))
    /\ [](IsCond => \A t \in Threads : pc[t] = "waiting" => key[t] \in pending)
    /\ [][IsCond =>
            \A t \in Threads :
                (pc[t] = "wait_for" /\ key[t] \notin pending /\ pc'[t] # pc[t]) =>
                    pc'[t] = "lookup"]_vars

\* in the condition strategy two callers are in the underlying function at
\* the same time for two different keys, both keys pending
C18_Witness ==
    /\ IsCond
    /\ \E t, u \in Threads :
         /\ pc[t] = "compute" /\ pc[u] = "compute"
         /\ key[t] # key[u]
         /\ pending = {key[t], key[u]}

\* ===================================================================== C19
\* C19: in the condition strategy a caller that is about to clean up, after
\* its computation returned or raised, has its key in the pending set, so
\* pending.remove(k) does not raise; no call ever leaves the wrapper with a
\* KeyError, and the cleanup step ends the call with the outcome of its own
\* computation.
C19_RemoveNeverFails ==
    /\ [](\A t \in Threads :
            pc[t] \in {"acq_cleanup", "cleanup"} =>
                (key[t] \in pending /\ val[t] \in FuncResults))
    /\ [](last[1] = "return" => last[2] # KeyErr)
    /\ [][\A t \in Threads :
            (pc[t] = "cleanup" /\ pc'[t] # pc[t]) =>
                /\ pc'[t] = "idle"
                /\ last' = Returned(val[t])
                /\ pending' = pending \ {key[t]}]_vars

\* a caller whose computation raised is at its cleanup after a cache_clear
\* has run
C19_Witness ==
    \E t \in Threads :
        /\ pc[t] = "cleanup"
        /\ val[t] = Raised
        /\ cleared
        /\ key[t] \in pending

\* ===================================================================== C20
\* thread t takes a step of cache_clear
ClearStep(t) == (Clearing(t) \/ Clearing(t)') /\ pc'[t] # pc[t]

\* C20: in the strategies with a lock cache_clear neither cancels nor
\* waits for the calls in flight: its steps leave the other threads'
\* positions, keys and values, the pending set and the invocation counts
\* as they are; it can start whenever the lock is free, whatever the other
\* threads are computing; and a caller at its store step stores its value
\* (unless the cache rejects it) whether or not a cache_clear has run since
\* its lookup.
C20_ClearLeavesCallsInFlight ==
    /\ [](\A t \in Threads :
            (Idle(t) /\ lock = None /\ ops.calls + ops.other < MaxOps) =>
                ENABLED (NextLocking /\ pc'[t] = "clear"))
    /\ [][\A t \in Threads :
            /\ ClearStep(t) =>
                  /\ \A u \in Threads \ {t} :
                        pc'[u] = pc[u] /\ key'[u] = key[u] /\ val'[u] = val[u]
                  /\ UNCHANGED <<pending, invoked>>
            /\ (pc[t] = "store" /\ pc'[t] # pc[t] /\ maxsize > 0) =>
                  /\ cache'[key[t]] # None
                  /\ cache[key[t]] = None => cache'[key[t]] = val[t]]_vars

\* the one call made recorded its miss, a cache_clear then completed, the
\* call stored its value, and cache_info, called last, reported (0, 0)
\* while the cache holds the entry
C20_Witness ==
    /\ cfg.info /\ cleared
    /\ \A t \in Threads : Idle(t)
    /\ ops.calls = 1 /\ ops.other = 2
    /\ nNotFound = 1
    /\ last[1] = "info" /\ snapshot = <<0, 0>>
    /\ hits = 0 /\ misses = 0
    /\ cache # EmptyCache

====
